---- MODULE Spec2Model ----
(***************************************************************************)
(* Model of the ECDH test application (apps/ecdh-test): the EcdhTestUi     *)
(* object of ui.rs (message history, input dispatch, diagnostic run,       *)
(* redraw layout) and the event loop of main.rs.                           *)
(*                                                                         *)
(* A text is a sequence of bytes.  An ASCII byte is written as the         *)
(* one-character string of its character; a byte >= 0x80 is written as its *)
(* two upper-case hex digits ("C3", "A9").                                 *)
(***************************************************************************)
EXTENDS Integers, Sequences, FiniteSets, TLC

VARIABLES
    pc,          \* position of main(): "setup", "startup", "recv", "exited", "panicked"
    history,     \* EcdhTestUi.history: the stored XousString<512> entries, oldest first
    screensize,  \* EcdhTestUi.screensize: Point obtained in EcdhTestUi::new
    canvas,      \* the bounds GAM has now for the content canvas (get_canvas_bounds)
    drawn,       \* text views posted by the last redraw, in posting order
    trace,       \* calls made on the history and the TRNG by the last handler
    ev,          \* the event handled last: opcode, input line, draw fault, keys
    appended,    \* texts passed to add_message since the history was last empty
    prior,       \* the history as it was when the last handler started
    steps        \* number of handler calls made so far

vars == <<pc, history, screensize, canvas, drawn, trace, ev, appended, prior, steps>>

----------------------------------------------------------------------------
(* Program constants *)

MAX_HISTORY == 20
ENTRY_CAP == 512
HEX_CAP == 256
KEY_LEN == 32
MARGIN == 4
LINE_HEIGHT == 16

(* Bounds of the model *)

MaxEvents == 3
MaxAppends == 22
MinHeight == 20
MaxHeight == 340
MaxBytes == 90
MaxExcess == 3

----------------------------------------------------------------------------
(* String literals of the program *)

T_BANNER_1 == <<"E", "C", "D", "H", " ", "T", "e", "s", "t", " ", "A", "p", "p", " ", "v", "0", ".", "1", ".", "0">>
T_BANNER_2 == <<"T", "y", "p", "e", " ", "'", "h", "e", "l", "p", "'", " ", "f", "o", "r", " ", "c", "o", "m", "m", "a", "n", "d", "s">>
T_SCREEN_CLEARED == <<"S", "c", "r", "e", "e", "n", " ", "c", "l", "e", "a", "r", "e", "d">>
T_HELP == <<"T", "y", "p", "e", " ", "'", "r", "u", "n", "'", " ", "t", "o", " ", "t", "e", "s", "t", " ", "E", "C", "D", "H">>
T_TEST_HEADER == <<"=", "=", "=", " ", "E", "C", "D", "H", " ", "T", "E", "S", "T", " ", "=", "=", "=">>
T_STEP_1 == <<"1", ".", " ", "G", "e", "n", "e", "r", "a", "t", "i", "n", "g", " ", "o", "u", "r", " ", "k", "e", "y", "p", "a", "i", "r", ".", ".", ".">>
T_OUR_PRIV == <<"O", "u", "r", " ", "p", "r", "i", "v", ":", " ">>
T_OUR_PUB == <<"O", "u", "r", " ", "p", "u", "b", ":", " ", " ">>
T_STEP_2 == <<"2", ".", " ", "G", "e", "n", "e", "r", "a", "t", "i", "n", "g", " ", "p", "e", "e", "r", " ", "k", "e", "y", "p", "a", "i", "r", ".", ".", ".">>
T_PEER_PUB == <<"P", "e", "e", "r", " ", "p", "u", "b", ":", " ">>
T_STEP_3 == <<"3", ".", " ", "C", "o", "m", "p", "u", "t", "i", "n", "g", " ", "E", "C", "D", "H", ".", ".", ".">>
T_SHARED == <<"S", "h", "a", "r", "e", "d", ":", " ", " ", " ">>
T_STEP_4 == <<"4", ".", " ", "C", "h", "e", "c", "k", "i", "n", "g", " ", "r", "e", "s", "u", "l", "t", "s", ".", ".", ".">>
T_BUG_PEER == <<"B", "U", "G", ":", " ", "s", "h", "a", "r", "e", "d", " ", "=", "=", " ", "p", "e", "e", "r", "_", "p", "u", "b", "!">>
T_BUG_OUR == <<"B", "U", "G", ":", " ", "s", "h", "a", "r", "e", "d", " ", "=", "=", " ", "o", "u", "r", "_", "p", "u", "b", "!">>
T_OK == <<"O", "K", ":", " ", "s", "h", "a", "r", "e", "d", " ", "!", "=", " ", "a", "n", "y", " ", "p", "u", "b", "k", "e", "y">>
T_TEST_COMPLETE == <<"=", "=", "=", " ", "T", "E", "S", "T", " ", "C", "O", "M", "P", "L", "E", "T", "E", " ", "=", "=", "=">>
T_RUN == <<"r", "u", "n">>
T_CLEAR == <<"c", "l", "e", "a", "r">>

----------------------------------------------------------------------------
(* Input lines and message texts the model draws from *)

IN_RUN == <<"r", "u", "n">>
IN_RUN_WS == <<" ", "r", "u", "n", "\n">>
IN_CLEAR == <<"c", "l", "e", "a", "r">>
IN_CLEAR_WS == <<"\t", "c", "l", "e", "a", "r", " ">>
IN_RUN_UPPER == <<"R", "U", "N">>
IN_RUNX == <<"r", "u", "n", "x">>
IN_HELP == <<"h", "e", "l", "p">>
IN_R_UN == <<"r", " ", "u", "n">>
IN_BLANK == <<" ", " ">>
IN_CLEAR_CAP == <<"C", "l", "e", "a", "r">>
T_MSG == <<"m", "s", "g">>
IN_EMPTY == <<>>
IN_RUN_NBSP == <<"r", "u", "n", "C2", "A0">>
IN_RUN_EM == <<"E2", "80", "83", "r", "u", "n", "E3", "80", "80">>
IN_CLEAR_VT == <<"0B", "c", "l", "e", "a", "r", "C2", "85">>
IN_RUN_ACCENT == <<"r", "u", "n", "C3", "A9">>
IN_RUN_ZWSP == <<"r", "u", "n", "E2", "80", "8B">>

InputsAll ==
    {IN_RUN, IN_RUN_WS, IN_CLEAR, IN_CLEAR_WS, IN_RUN_UPPER, IN_RUNX,
     IN_HELP, IN_R_UN, IN_BLANK, IN_CLEAR_CAP, IN_EMPTY,
     IN_RUN_NBSP, IN_RUN_EM, IN_CLEAR_VT, IN_RUN_ACCENT, IN_RUN_ZWSP}

InputsLoop == {IN_RUN, IN_CLEAR, IN_CLEAR_VT, IN_RUN_UPPER}

Digits == <<"0", "1", "2", "3", "4", "5", "6", "7", "8", "9">>

RECURSIVE Decimal(_)
Decimal(n) ==
    IF n < 10 THEN <<Digits[n + 1]>>
    ELSE Decimal(n \div 10) \o <<Digits[(n % 10) + 1]>>

(* "msg0", "msg1", ... *)
MsgText(n) == T_MSG \o Decimal(n)

(* A history of n entries "msg0" .. "msg<n-1>", as n calls of add_message *)
(* on a new EcdhTestUi leave it (n <= MAX_HISTORY).                        *)
SampleLog(n) == [i \in 1..n |-> MsgText(i - 1)]

SampleLogs == {SampleLog(n) : n \in 0..MAX_HISTORY}

(* 32-byte values standing for the outputs of the TRNG and of x25519 *)
KeyBytes(seed) == [i \in 1..KEY_LEN |-> (seed * 37 + i * 11) % 256]

KEY_A == KeyBytes(1)
KEY_B == KeyBytes(2)
KEY_C == KeyBytes(3)

(* What one diagnostic run gets from its collaborators: whether the TRNG   *)
(* server can be reached, the two 32-byte draws, and the values the curve  *)
(* primitive returns for the two public keys and the shared secret.        *)
RunEnv(a, b, c, d, e) ==
    [trng_ok |-> TRUE, our_secret |-> a, our_public |-> b,
     peer_secret |-> c, peer_public |-> d, shared |-> e]

NoKeys ==
    [trng_ok |-> TRUE, our_secret |-> <<>>, our_public |-> <<>>,
     peer_secret |-> <<>>, peer_public |-> <<>>, shared |-> <<>>]

(* The TRNG server cannot be reached: Trng::new(&xns) is an Err *)
TrngDown == [NoKeys EXCEPT !.trng_ok = FALSE]

(* Every choice of the three compared values among three keys, for two     *)
(* values of our secret                                                    *)
EnvsAll ==
    {RunEnv(a, b, KEY_C, d, e) :
        a \in {KEY_A, KEY_B}, b \in {KEY_A, KEY_B, KEY_C},
        d \in {KEY_A, KEY_B, KEY_C}, e \in {KEY_A, KEY_B, KEY_C}}
    \cup {TrngDown}

(* One environment for each way the comparison can come out *)
EnvsLoop ==
    {RunEnv(KEY_A, KEY_B, KEY_C, KEY_B, KEY_B),
     RunEnv(KEY_A, KEY_B, KEY_C, KEY_A, KEY_A),
     RunEnv(KEY_A, KEY_B, KEY_C, KEY_A, KEY_B),
     RunEnv(KEY_A, KEY_B, KEY_B, KEY_A, KEY_C),
     TrngDown}

Faults == {"none", "rect", "post", "redraw"}

----------------------------------------------------------------------------
(* xous::String<N>: a buffer of at most N bytes *)

(* write!(s, ...) onto a String of capacity cap holding cur: bytes beyond *)
(* the capacity are dropped.                                               *)
XousStringWrite(cur, s, cap) ==
    LET all == cur \o s
    IN  IF Len(all) <= cap THEN all ELSE SubSeq(all, 1, cap)

(* A byte that no TLA+ string literal holds as a character is written as  *)
(* its two upper-case hex digits: "0B", "C3", "A9"                         *)
HexUpper ==
    <<"0", "1", "2", "3", "4", "5", "6", "7", "8", "9",
      "A", "B", "C", "D", "E", "F">>

ByteName(n) == HexUpper[(n \div 16) + 1] \o HexUpper[(n % 16) + 1]

ByteNames(lo, hi) == {ByteName(n) : n \in lo..hi}

(* The bytes 0x80..0xBF, 0xC2..0xDF, 0xE0..0xEF, 0xF0..0xF4 and the bytes  *)
(* that appear in no UTF-8 text                                            *)
ContinuationBytes == ByteNames(128, 191)
Lead2Bytes == ByteNames(194, 223)
Lead3Bytes == ByteNames(224, 239)
Lead4Bytes == ByteNames(240, 244)
IllegalBytes == ByteNames(192, 193) \cup ByteNames(245, 255)

IsLeadByte(b) == b \in Lead2Bytes \cup Lead3Bytes \cup Lead4Bytes
IsContinuationByte(b) == b \in ContinuationBytes

(* The number of bytes of the character that starts with the byte b *)
CharLen(b) ==
    IF b \in Lead2Bytes THEN 2
    ELSE IF b \in Lead3Bytes THEN 3
    ELSE IF b \in Lead4Bytes THEN 4
    ELSE 1

(* The second byte of a character is further restricted after E0, ED, F0   *)
(* and F4 (no overlong forms, no surrogates, nothing above U+10FFFF)       *)
SecondByteOk(b, c) ==
    /\ b = "E0" => c \in ByteNames(160, 191)
    /\ b = "ED" => c \in ByteNames(128, 159)
    /\ b = "F0" => c \in ByteNames(144, 191)
    /\ b = "F4" => c \in ByteNames(128, 143)

(* String::as_str() is Ok iff the stored bytes are valid UTF-8: every lead *)
(* byte is followed by its continuation bytes, and every continuation byte *)
(* belongs to a lead byte before it                                        *)
as_str_is_ok(s) ==
    \A i \in 1..Len(s) :
        /\ s[i] \notin IllegalBytes
        /\ IsLeadByte(s[i]) =>
              /\ i + CharLen(s[i]) - 1 <= Len(s)
              /\ \A j \in 1..(CharLen(s[i]) - 1) : IsContinuationByte(s[i + j])
              /\ SecondByteOk(s[i], s[i + 1])
        /\ IsContinuationByte(s[i]) =>
              \E k \in 1..3 :
                  /\ i - k >= 1
                  /\ IsLeadByte(s[i - k])
                  /\ CharLen(s[i - k]) > k
                  /\ \A j \in 1..(k - 1) : IsContinuationByte(s[i - j])

(* x.as_str().unwrap_or("") *)
as_str_unwrap_or_empty(s) == IF as_str_is_ok(s) THEN s ELSE <<>>

(* The characters with the Unicode property White_Space, each as the tuple *)
(* of its UTF-8 bytes: U+0009..U+000D, U+0020, U+0085, U+00A0, U+1680,     *)
(* U+2000..U+200A, U+2028, U+2029, U+202F, U+205F, U+3000                  *)
WhiteSpace ==
    {<<"\t">>, <<"\n">>, <<"0B">>, <<"\f">>, <<"\r">>, <<" ">>,
     <<"C2", "85">>, <<"C2", "A0">>, <<"E1", "9A", "80">>,
     <<"E2", "80", "A8">>, <<"E2", "80", "A9">>, <<"E2", "80", "AF">>,
     <<"E2", "81", "9F">>, <<"E3", "80", "80">>}
    \cup {<<"E2", "80", b>> : b \in ByteNames(128, 138)}

(* char::is_whitespace, c being the tuple of the character's bytes *)
IsWhitespace(c) == c \in WhiteSpace

(* The first and the last character of a non-empty &str, as byte tuples *)
FirstChar(s) == SubSeq(s, 1, CharLen(s[1]))

LastChar(s) ==
    LET k == CHOOSE k \in 1..4 :
                 /\ k <= Len(s)
                 /\ ~IsContinuationByte(s[Len(s) - k + 1])
                 /\ \A j \in 1..(k - 1) : IsContinuationByte(s[Len(s) - j + 1])
    IN  SubSeq(s, Len(s) - k + 1, Len(s))

(* str::trim_start(), str::trim_end(): strip white space, a character at a *)
(* time                                                                    *)
RECURSIVE trim_start(_)
trim_start(s) ==
    IF s # <<>> /\ IsWhitespace(FirstChar(s))
    THEN trim_start(SubSeq(s, Len(FirstChar(s)) + 1, Len(s)))
    ELSE s

RECURSIVE trim_end(_)
trim_end(s) ==
    IF s # <<>> /\ IsWhitespace(LastChar(s))
    THEN trim_end(SubSeq(s, 1, Len(s) - Len(LastChar(s))))
    ELSE s

(* str::trim() *)
trim(s) == trim_end(trim_start(s))

----------------------------------------------------------------------------
(* EcdhTestUi.  self is the record [history, trace, appended, panicked]:   *)
(* history is the field of the struct; trace and appended record the calls *)
(* made; panicked is set when an expect()/unwrap() fails.                  *)

NewUi(h, app) == [history |-> h, trace |-> <<>>, appended |-> app, panicked |-> FALSE]

Call(k, v) == [k |-> k, v |-> v]

(* heapless::Vec::remove(0) *)
vec_remove_first(h) == Tail(h)

(* heapless::Vec<_, MAX_HISTORY>::push(x).ok(): a full vector is left as is *)
vec_push(h, x) == IF Len(h) < MAX_HISTORY THEN Append(h, x) ELSE h

(* Variants of add_message with a fault seeded: the properties below must *)
(* fail on them.                                                           *)
add_message_evict_last(self, msg) ==
    LET xstr == XousStringWrite(<<>>, msg, ENTRY_CAP)
        h1 == IF Len(self.history) >= MAX_HISTORY
              THEN SubSeq(self.history, 1, Len(self.history) - 1)
              ELSE self.history
    IN  [self EXCEPT !.history = vec_push(h1, xstr),
                     !.trace = Append(@, Call("add", msg)),
                     !.appended = Append(@, msg)]

add_message_unbounded(self, msg) ==
    LET xstr == XousStringWrite(<<>>, msg, ENTRY_CAP)
    IN  [self EXCEPT !.history = Append(@, xstr),
                     !.trace = Append(@, Call("add", msg)),
                     !.appended = Append(@, msg)]

(* Variant of add_message with a fault seeded: the text is stored whole *)
add_message_uncapped(self, msg) ==
    LET h1 == IF Len(self.history) >= MAX_HISTORY
              THEN vec_remove_first(self.history)
              ELSE self.history
    IN  [self EXCEPT !.history = vec_push(h1, msg),
                     !.trace = Append(@, Call("add", msg)),
                     !.appended = Append(@, msg)]

add_message(self, msg) ==
    LET xstr == XousStringWrite(<<>>, msg, ENTRY_CAP)
        h1 == IF Len(self.history) >= MAX_HISTORY
              THEN vec_remove_first(self.history)
              ELSE self.history
    IN  [self EXCEPT !.history = vec_push(h1, xstr),
                     !.trace = Append(@, Call("add", msg)),
                     !.appended = Append(@, msg)]

(* self.history.clear() *)
history_clear(self) ==
    [self EXCEPT !.history = <<>>,
                 !.trace = Append(@, Call("clear", <<>>)),
                 !.appended = <<>>]

HexDigits ==
    <<"0", "1", "2", "3", "4", "5", "6", "7", "8", "9",
      "a", "b", "c", "d", "e", "f">>

(* Variant of HexByte with a fault seeded: the two digits swapped *)
HexByte_swapped(b) == <<HexDigits[(b % 16) + 1], HexDigits[(b \div 16) + 1], " ">>

(* "{:02x} " *)
HexByte(b) == <<HexDigits[(b \div 16) + 1], HexDigits[(b % 16) + 1], " ">>

(* The loop "for b in bytes { write!(result, "{:02x} ", b) }" on a        *)
(* XousString<256>: byte k of the input gives characters 3k-2 .. 3k, and   *)
(* what does not fit the 256 bytes is dropped.                             *)
format_hex(bytes) ==
    LET text == [i \in 1..(3 * Len(bytes)) |->
                    HexByte(bytes[((i - 1) \div 3) + 1])[((i - 1) % 3) + 1]]
    IN  XousStringWrite(<<>>, text, HEX_CAP)

(* bytes_to_log_string: the writes of the loop, "\n" before the bytes at   *)
(* index 16, 32, ... (counted from 0 as enumerate() does) and "{:02x} "    *)
(* for every byte, laid end to end: 48 characters for the first 16 bytes,  *)
(* then 49 for every further 16; the XousString<256> keeps what fits       *)
bytes_to_log_string(bytes) ==
    LET n == Len(bytes)
        total == IF n = 0 THEN 0 ELSE 3 * n + ((n - 1) \div 16)
        at(p) == IF p <= 48
                 THEN HexByte(bytes[((p - 1) \div 3) + 1])[((p - 1) % 3) + 1]
                 ELSE LET q == p - 49
                          r == q % 49
                          i == 16 * (1 + (q \div 49)) + ((r - 1) \div 3)
                      IN  IF r = 0 THEN "\n"
                          ELSE HexByte(bytes[i + 1])[((r - 1) % 3) + 1]
        text == [p \in 1..total |-> at(p)]
    IN  XousStringWrite(<<>>, text, HEX_CAP)

(* A line "<label><hex>" built in a XousString<512> and added to the log *)
add_hex_line(self, label, bytes) ==
    LET msg == XousStringWrite(<<>>, label \o format_hex(bytes), ENTRY_CAP)
    IN  add_message(self, as_str_unwrap_or_empty(msg))

(* trng.fill_bytes_via_next(&mut buf) *)
trng_fill(self) == [self EXCEPT !.trace = Append(@, Call("trng", <<>>))]

(* Variants of check_results with a fault seeded *)
check_results_two_ifs(self, shared, peer_public, our_public) ==
    LET s1 == IF shared = peer_public THEN add_message(self, T_BUG_PEER) ELSE self
        s2 == IF shared = our_public THEN add_message(s1, T_BUG_OUR) ELSE s1
    IN  IF shared # peer_public /\ shared # our_public
        THEN add_message(s2, T_OK)
        ELSE s2

check_results_our_first(self, shared, peer_public, our_public) ==
    IF shared = our_public THEN add_message(self, T_BUG_OUR)
    ELSE IF shared = peer_public THEN add_message(self, T_BUG_PEER)
    ELSE add_message(self, T_OK)

(* The comparison of the shared secret with the two public keys *)
check_results(self, shared, peer_public, our_public) ==
    IF shared = peer_public THEN add_message(self, T_BUG_PEER)
    ELSE IF shared = our_public THEN add_message(self, T_BUG_OUR)
    ELSE add_message(self, T_OK)

(* Variants of cmd_run with a fault seeded *)
cmd_run_stops_early(self, env) ==
    LET s1 == add_message(self, T_TEST_HEADER)
    IN  IF ~env.trng_ok
        THEN [s1 EXCEPT !.panicked = TRUE]
        ELSE
          LET s2 == trng_fill(add_message(s1, T_STEP_1))
              s3 == add_hex_line(s2, T_OUR_PRIV, env.our_secret)
              s4 == add_hex_line(s3, T_OUR_PUB, env.our_public)
          IN  trng_fill(add_message(s4, T_STEP_2))

cmd_run_verdict_last(self, env) ==
    LET s1 == add_message(self, T_TEST_HEADER)
    IN  IF ~env.trng_ok
        THEN [s1 EXCEPT !.panicked = TRUE]
        ELSE
          LET s2 == trng_fill(add_message(s1, T_STEP_1))
              s3 == add_hex_line(s2, T_OUR_PRIV, env.our_secret)
              s4 == add_hex_line(s3, T_OUR_PUB, env.our_public)
              s5 == trng_fill(add_message(s4, T_STEP_2))
              s6 == add_hex_line(s5, T_PEER_PUB, env.peer_public)
              s7 == add_message(s6, T_STEP_3)
              s8 == add_hex_line(s7, T_SHARED, env.shared)
              s9 == add_message(s8, T_STEP_4)
              s10 == add_message(s9, T_TEST_COMPLETE)
          IN  check_results(s10, env.shared, env.peer_public, env.our_public)

cmd_run(self, env) ==
    LET s1 == add_message(self, T_TEST_HEADER)
    IN  IF ~env.trng_ok
        THEN [s1 EXCEPT !.panicked = TRUE]
        ELSE
          LET s2 == trng_fill(add_message(s1, T_STEP_1))
              s3 == add_hex_line(s2, T_OUR_PRIV, env.our_secret)
              s4 == add_hex_line(s3, T_OUR_PUB, env.our_public)
              s5 == trng_fill(add_message(s4, T_STEP_2))
              s6 == add_hex_line(s5, T_PEER_PUB, env.peer_public)
              s7 == add_message(s6, T_STEP_3)
              s8 == add_hex_line(s7, T_SHARED, env.shared)
              s9 == add_message(s8, T_STEP_4)
              s10 == check_results(s9, env.shared, env.peer_public, env.our_public)
          IN  add_message(s10, T_TEST_COMPLETE)

(* Variants of handle_input with a fault seeded *)
handle_input_keeps_log(self, input, env) ==
    LET echo == XousStringWrite(<<>>, <<">">> \o input, ENTRY_CAP)
        s1 == add_message(self, as_str_unwrap_or_empty(echo))
        trimmed == trim(input)
    IN  CASE trimmed = T_RUN -> cmd_run(s1, env)
          [] trimmed = T_CLEAR -> add_message(s1, T_SCREEN_CLEARED)
          [] OTHER -> add_message(s1, T_HELP)

handle_input_clear_silent(self, input, env) ==
    LET echo == XousStringWrite(<<>>, <<">">> \o input, ENTRY_CAP)
        s1 == add_message(self, as_str_unwrap_or_empty(echo))
        trimmed == trim(input)
    IN  CASE trimmed = T_RUN -> cmd_run(s1, env)
          [] trimmed = T_CLEAR -> history_clear(s1)
          [] OTHER -> add_message(s1, T_HELP)

handle_input_echo_trimmed(self, input, env) ==
    LET trimmed == trim(input)
        echo == XousStringWrite(<<>>, <<">">> \o trimmed, ENTRY_CAP)
        s1 == add_message(self, as_str_unwrap_or_empty(echo))
    IN  CASE trimmed = T_RUN -> cmd_run(s1, env)
          [] trimmed = T_CLEAR -> add_message(history_clear(s1), T_SCREEN_CLEARED)
          [] OTHER -> add_message(s1, T_HELP)

handle_input_untrimmed(self, input, env) ==
    LET echo == XousStringWrite(<<>>, <<">">> \o input, ENTRY_CAP)
        s1 == add_message(self, as_str_unwrap_or_empty(echo))
    IN  CASE input = T_RUN -> cmd_run(s1, env)
          [] input = T_CLEAR -> add_message(history_clear(s1), T_SCREEN_CLEARED)
          [] OTHER -> add_message(s1, T_HELP)

handle_input(self, input, env) ==
    LET echo == XousStringWrite(<<>>, <<">">> \o input, ENTRY_CAP)
        s1 == add_message(self, as_str_unwrap_or_empty(echo))
        trimmed == trim(input)
    IN  CASE trimmed = T_RUN -> cmd_run(s1, env)
          [] trimmed = T_CLEAR -> add_message(history_clear(s1), T_SCREEN_CLEARED)
          [] OTHER -> add_message(s1, T_HELP)

Point(x, y) == [x |-> x, y |-> y]

(* Variant of TextBox with a fault seeded: the box hangs below y *)
TextBox_below(msg, y, size) ==
    [text |-> msg,
     tl |-> Point(MARGIN, y),
     br |-> Point(size.x - MARGIN, y + LINE_HEIGHT)]

(* The TextView posted for one message: its text and its bounding box *)
TextBox(msg, y, size) ==
    [text |-> msg,
     tl |-> Point(MARGIN, y - LINE_HEIGHT),
     br |-> Point(size.x - MARGIN, y)]

(* The loop over self.history.iter().rev(): entry i, then the older ones *)
RECURSIVE draw_messages(_, _, _, _)
draw_messages(h, i, y, size) ==
    IF i = 0 THEN <<>>
    ELSE IF as_str_is_ok(h[i])
    THEN <<TextBox(h[i], y, size)>> \o
         (IF y - LINE_HEIGHT < 0 THEN <<>>
          ELSE draw_messages(h, i - 1, y - LINE_HEIGHT, size))
    ELSE draw_messages(h, i - 1, y, size)

(* Variant of redraw with a fault seeded: an empty history is shown as one *)
(* blank line                                                              *)
redraw_blank_line(h, size, fault) ==
    IF fault = "rect"
    THEN [result |-> "panic", posted |-> <<>>]
    ELSE [result |-> IF fault = "redraw" THEN "Err" ELSE "Ok",
          posted |-> IF h = <<>>
                     THEN <<TextBox(<<>>, size.y - MARGIN, size)>>
                     ELSE draw_messages(h, Len(h), size.y - MARGIN, size)]

(* redraw(): fault names the draw call that fails, if any.  result is Ok,  *)
(* Err (returned by the ? on gam.redraw()) or panic (the expect on the     *)
(* rectangle); posted lists the text views posted.                         *)
redraw(h, size, fault) ==
    IF fault = "rect"
    THEN [result |-> "panic", posted |-> <<>>]
    ELSE [result |-> IF fault = "redraw" THEN "Err" ELSE "Ok",
          posted |-> draw_messages(h, Len(h), size.y - MARGIN, size)]

----------------------------------------------------------------------------
(* main(): startup and the event loop *)

(* err names the call outside the drawing whose failure ended the handler, *)
(* "none" when there was none                                              *)
Event(op, input, fault, keys) ==
    [op |-> op, input |-> input, fault |-> fault, keys |-> keys, err |-> "none"]

Failed(op, err) == [Event(op, <<>>, "none", NoKeys) EXCEPT !.err = err]

(* The calls of main before the banner lines that can fail: a panic at the *)
(* unwrap()/expect() of main.rs 28, 31, 32, 35, 49 and ui.rs 22, 23, 26,   *)
(* and terminate_process(1) when register_ux answers None                  *)
SetupPanics ==
    {"log_server", "names", "register_name", "gam", "register_ux",
     "content_canvas", "canvas_bounds", "gam_clone"}

SetupOutcomes == {"none", "token_none"} \cup SetupPanics

(* A Line message that cannot be read: it is a scalar message, or its      *)
(* buffer does not hold a String                                           *)
LineFailures == {"scalar", "badflat"}

(* No EcdhTestUi yet *)
NoSize == Point(0, 0)

(* The collaborators' answers matter only to an input that starts a run *)
EnvsFor(input, envs) == IF trim(input) = T_RUN THEN envs ELSE {NoKeys}

ViewportsLoop == {Point(336, 100)}

(* The bounds the canvas can be given while the program runs *)
CanvasesLoop == {Point(336, 100), Point(320, 68)}

Init ==
    /\ pc = "setup"
    /\ history = <<>>
    /\ screensize = NoSize
    /\ canvas \in ViewportsLoop
    /\ drawn = <<>>
    /\ trace = <<>>
    /\ ev = Event("new", <<>>, "none", NoKeys)
    /\ appended = <<>>
    /\ prior = <<>>
    /\ steps = 0

(* main.rs 28-57: the connections, the registration with GAM and          *)
(* EcdhTestUi::new, which reads the bounds of the canvas.  outcome names   *)
(* the call that fails, if any; on "token_none" the process exits with     *)
(* code 1.                                                                 *)
Setup(outcome) ==
    /\ pc = "setup"
    /\ pc' = CASE outcome = "none" -> "startup"
              [] outcome = "token_none" -> "exited"
              [] OTHER -> "panicked"
    /\ screensize' = IF outcome = "none" THEN canvas ELSE screensize
    /\ ev' = Failed("Setup", outcome)
    /\ UNCHANGED <<history, canvas, drawn, trace, appended, prior, steps>>

(* main.rs 59-61: the two banner lines and the initial redraw, whose       *)
(* result is expect()ed.                                                   *)
Startup(fault) ==
    /\ pc = "startup"
    /\ \E s \in {add_message(add_message(NewUi(history, appended), T_BANNER_1),
                                 T_BANNER_2)} :
       \E r \in {redraw(s.history, screensize, fault)} :
           /\ history' = s.history
           /\ trace' = s.trace
           /\ appended' = s.appended
           /\ drawn' = r.posted
           /\ pc' = IF r.result = "Ok" THEN "recv" ELSE "panicked"
    /\ prior' = history
    /\ ev' = Event("Startup", <<>>, fault, NoKeys)
    /\ UNCHANGED <<screensize, canvas, steps>>

(* Variant of RecvRedraw with a fault seeded: the redraw consumes the      *)
(* oldest entry of the log                                                 *)
RecvRedraw_consumes(fault) ==
    /\ pc = "recv"
    /\ steps < MaxEvents
    /\ \E r \in {redraw(vec_remove_first(history), screensize, fault)} :
           /\ drawn' = r.posted
           /\ pc' = IF r.result = "panic" THEN "panicked" ELSE "recv"
    /\ history' = vec_remove_first(history)
    /\ trace' = <<>>
    /\ prior' = history
    /\ ev' = Event("Redraw", <<>>, fault, NoKeys)
    /\ steps' = steps + 1
    /\ UNCHANGED <<screensize, canvas, appended>>

(* Some(EcdhTestOp::Redraw) => ui.redraw().ok() *)
RecvRedraw(fault) ==
    /\ pc = "recv"
    /\ steps < MaxEvents
    /\ \E r \in {redraw(history, screensize, fault)} :
           /\ drawn' = r.posted
           /\ pc' = IF r.result = "panic" THEN "panicked" ELSE "recv"
    /\ trace' = <<>>
    /\ prior' = history
    /\ ev' = Event("Redraw", <<>>, fault, NoKeys)
    /\ steps' = steps + 1
    /\ UNCHANGED <<history, screensize, canvas, appended>>

(* Some(EcdhTestOp::Line) => the message is unwrapped to its String       *)
(* (main.rs 72-73: delivery names the unwrap() that fails, if any), then   *)
(* ui.handle_input(input); ui.redraw().ok()                                *)
RecvLine(delivery, input, env, fault) ==
    /\ pc = "recv"
    /\ steps < MaxEvents
    /\ IF delivery # "none"
       THEN /\ pc' = "panicked"
            /\ trace' = <<>>
            /\ ev' = Failed("Line", delivery)
            /\ UNCHANGED <<history, appended, drawn>>
       ELSE \E s \in {handle_input(NewUi(history, appended), input, env)} :
            \E r \in {redraw(s.history, screensize, fault)} :
                /\ history' = s.history
                /\ trace' = s.trace
                /\ appended' = s.appended
                /\ drawn' = IF s.panicked THEN drawn ELSE r.posted
                /\ pc' = IF s.panicked \/ r.result = "panic" THEN "panicked" ELSE "recv"
                /\ ev' = Event("Line", input, IF s.panicked THEN "none" ELSE fault, env)
    /\ prior' = history
    /\ steps' = steps + 1
    /\ UNCHANGED <<screensize, canvas>>

(* xous::receive_message(sid).unwrap() on an Err (main.rs 66) *)
RecvFails ==
    /\ pc = "recv"
    /\ steps < MaxEvents
    /\ pc' = "panicked"
    /\ trace' = <<>>
    /\ prior' = history
    /\ ev' = Failed("Receive", "recv")
    /\ steps' = steps + 1
    /\ UNCHANGED <<history, screensize, canvas, drawn, appended>>

(* Some(EcdhTestOp::ChangeFocus) => {} *)
RecvChangeFocus ==
    /\ pc = "recv"
    /\ steps < MaxEvents
    /\ trace' = <<>>
    /\ prior' = history
    /\ ev' = Event("ChangeFocus", <<>>, "none", NoKeys)
    /\ steps' = steps + 1
    /\ UNCHANGED <<pc, history, screensize, canvas, drawn, appended>>

(* Variant of RecvUnknown with a fault seeded: an unknown opcode ends the  *)
(* loop                                                                    *)
RecvUnknown_stops ==
    /\ pc = "recv"
    /\ steps < MaxEvents
    /\ pc' = "exited"
    /\ trace' = <<>>
    /\ prior' = history
    /\ ev' = Event("Unknown", <<>>, "none", NoKeys)
    /\ steps' = steps + 1
    /\ UNCHANGED <<history, screensize, canvas, drawn, appended>>

(* None => error!("Unknown opcode: {}") *)
RecvUnknown ==
    /\ pc = "recv"
    /\ steps < MaxEvents
    /\ trace' = <<>>
    /\ prior' = history
    /\ ev' = Event("Unknown", <<>>, "none", NoKeys)
    /\ steps' = steps + 1
    /\ UNCHANGED <<pc, history, screensize, canvas, drawn, appended>>

(* Some(EcdhTestOp::Quit) => break; then xous::terminate_process(0) *)
RecvQuit ==
    /\ pc = "recv"
    /\ steps < MaxEvents
    /\ pc' = "exited"
    /\ trace' = <<>>
    /\ prior' = history
    /\ ev' = Event("Quit", <<>>, "none", NoKeys)
    /\ steps' = steps + 1
    /\ UNCHANGED <<history, screensize, canvas, drawn, appended>>

(* GAM changes the bounds of the content canvas (the environment; the     *)
(* program is not told, and reads the bounds only in EcdhTestUi::new, at   *)
(* the end of setup).  The bounds can change while main waits in any of    *)
(* its blocking calls: during setup, before the first redraw, in the loop. *)
CanvasResize(size) ==
    /\ pc \in {"setup", "startup", "recv"}
    /\ size # canvas
    /\ canvas' = size
    /\ UNCHANGED <<pc, history, screensize, drawn, trace, ev, appended, prior, steps>>

Next ==
    \/ \E outcome \in SetupOutcomes : Setup(outcome)
    \/ \E fault \in Faults : Startup(fault)
    \/ \E fault \in Faults : RecvRedraw(fault)
    \/ \E input \in InputsLoop, fault \in Faults :
          \E env \in EnvsFor(input, EnvsLoop) : RecvLine("none", input, env, fault)
    \/ \E delivery \in LineFailures : RecvLine(delivery, IN_EMPTY, NoKeys, "none")
    \/ RecvFails
    \/ RecvChangeFocus
    \/ RecvUnknown
    \/ RecvQuit
    \/ \E size \in CanvasesLoop : CanvasResize(size)

Spec == Init /\ [][Next]_vars

----------------------------------------------------------------------------
(* The message log alone: add_message and history.clear() on a new UI *)

InitLog ==
    /\ pc = "log"
    /\ history = <<>>
    /\ screensize = Point(336, 100)
    /\ canvas = screensize
    /\ drawn = <<>>
    /\ trace = <<>>
    /\ ev = Event("new", <<>>, "none", NoKeys)
    /\ appended = <<>>
    /\ prior = <<>>
    /\ steps = 0

(* ui.add_message("msg<k>"), k the number of calls made before *)
LogAppend ==
    /\ pc = "log"
    /\ steps < MaxAppends
    /\ \E s \in {add_message(NewUi(history, appended), MsgText(steps))} :
           /\ history' = s.history
           /\ trace' = s.trace
           /\ appended' = s.appended
    /\ prior' = history
    /\ ev' = Event("add_message", MsgText(steps), "none", NoKeys)
    /\ steps' = steps + 1
    /\ UNCHANGED <<pc, screensize, canvas, drawn>>

LogClear ==
    /\ pc = "log"
    /\ history # <<>>
    /\ \E s \in {history_clear(NewUi(history, appended))} :
           /\ history' = s.history
           /\ trace' = s.trace
           /\ appended' = s.appended
    /\ prior' = history
    /\ ev' = Event("clear", <<>>, "none", NoKeys)
    /\ UNCHANGED <<pc, screensize, canvas, drawn, steps>>

NextLog == LogAppend \/ LogClear

SpecLog == InitLog /\ [][NextLog]_vars

----------------------------------------------------------------------------
(* handle_input alone, on a log of 0..MAX_HISTORY entries *)

InitDispatch ==
    /\ pc = "dispatch"
    /\ history \in SampleLogs
    /\ screensize = Point(336, 100)
    /\ canvas = screensize
    /\ drawn = <<>>
    /\ trace = <<>>
    /\ ev = Event("new", <<>>, "none", NoKeys)
    /\ appended = history
    /\ prior = history
    /\ steps = 0

Dispatch(input, env) ==
    /\ pc = "dispatch"
    /\ \E s \in {handle_input(NewUi(history, appended), input, env)} :
           /\ history' = s.history
           /\ trace' = s.trace
           /\ appended' = s.appended
           /\ pc' = IF s.panicked THEN "panicked" ELSE "returned"
    /\ prior' = history
    /\ ev' = Event("handle_input", input, "none", env)
    /\ steps' = steps + 1
    /\ UNCHANGED <<screensize, canvas, drawn>>

NextDispatch ==
    \E input \in InputsAll : \E env \in EnvsFor(input, EnvsAll) : Dispatch(input, env)

SpecDispatch == InitDispatch /\ [][NextDispatch]_vars

----------------------------------------------------------------------------
(* redraw alone, on a log of 0..MAX_HISTORY entries and a viewport of any  *)
(* height from MinHeight (room for one line and the margin) to MaxHeight   *)
(* (room for all MAX_HISTORY lines)                                        *)

ViewportsLayout == {Point(w, h) : w \in {100, 336}, h \in MinHeight..MaxHeight}

InitLayout ==
    /\ pc = "layout"
    /\ history \in SampleLogs
    /\ screensize \in ViewportsLayout
    /\ canvas = screensize
    /\ drawn = <<>>
    /\ trace = <<>>
    /\ ev = Event("new", <<>>, "none", NoKeys)
    /\ appended = history
    /\ prior = history
    /\ steps = 0

Layout(fault) ==
    /\ pc = "layout"
    /\ \E r \in {redraw(history, screensize, fault)} :
           /\ drawn' = r.posted
           /\ pc' = IF r.result = "panic" THEN "panicked" ELSE "returned"
    /\ prior' = history
    /\ ev' = Event("redraw", <<>>, fault, NoKeys)
    /\ steps' = steps + 1
    /\ UNCHANGED <<history, screensize, canvas, trace, appended>>

NextLayout == \E fault \in Faults : Layout(fault)

SpecLayout == InitLayout /\ [][NextLayout]_vars

----------------------------------------------------------------------------
(* format_hex and bytes_to_log_string alone, on byte sequences of 0 to     *)
(* MaxBytes bytes that between them hold every byte value                  *)

HexSamples ==
    {[i \in 1..n |-> (start + i - 1) % 256] : n \in 0..MaxBytes, start \in {0, 86, 172}}
    \cup {<<222, 173, 190, 239>>}

InitHex ==
    /\ pc = "hex"
    /\ history = <<>>
    /\ screensize = Point(336, 100)
    /\ canvas = screensize
    /\ drawn = <<>>
    /\ trace = <<>>
    /\ \E bytes \in HexSamples : ev = Event("new", bytes, "none", NoKeys)
    /\ appended = <<>>
    /\ prior = <<>>
    /\ steps = 0

(* Self::format_hex(bytes) and Self::bytes_to_log_string(bytes) *)
HexFormat ==
    /\ pc = "hex"
    /\ pc' = "returned"
    /\ trace' = <<Call("format_hex", format_hex(ev.input)),
                  Call("bytes_to_log_string", bytes_to_log_string(ev.input))>>
    /\ ev' = Event("hex", ev.input, "none", NoKeys)
    /\ steps' = steps + 1
    /\ UNCHANGED <<history, screensize, canvas, drawn, appended, prior>>

NextHex == HexFormat

SpecHex == InitHex /\ [][NextHex]_vars

----------------------------------------------------------------------------
(* add_message and handle_input on texts around the 512 bytes of a log     *)
(* entry: one byte short of the capacity up to MaxExcess bytes beyond it,  *)
(* all ASCII or ending in a two-byte character, which the capacity can cut *)
(* in two                                                                  *)

Fill(n) == [i \in 1..n |-> "x"]

LongTexts ==
    {Fill(n) : n \in (ENTRY_CAP - 1)..(ENTRY_CAP + MaxExcess)}
    \cup {Fill(n - 2) \o <<"C3", "A9">> : n \in (ENTRY_CAP - 1)..(ENTRY_CAP + MaxExcess)}

InitCap ==
    /\ pc = "append"
    /\ history \in SampleLogs
    /\ screensize = Point(336, 100)
    /\ canvas = screensize
    /\ drawn = <<>>
    /\ trace = <<>>
    /\ ev = Event("new", <<>>, "none", NoKeys)
    /\ appended = history
    /\ prior = history
    /\ steps = 0

(* ui.add_message(text) *)
CapAppend(text) ==
    /\ pc = "append"
    /\ \E s \in {add_message(NewUi(history, appended), text)} :
           /\ history' = s.history
           /\ trace' = s.trace
           /\ appended' = s.appended
    /\ pc' = "returned"
    /\ prior' = history
    /\ ev' = Event("add_message", text, "none", NoKeys)
    /\ steps' = steps + 1
    /\ UNCHANGED <<screensize, canvas, drawn>>

(* ui.handle_input(input) *)
CapInput(input) ==
    /\ pc = "append"
    /\ \E s \in {handle_input(NewUi(history, appended), input, NoKeys)} :
           /\ history' = s.history
           /\ trace' = s.trace
           /\ appended' = s.appended
    /\ pc' = "returned"
    /\ prior' = history
    /\ ev' = Event("handle_input", input, "none", NoKeys)
    /\ steps' = steps + 1
    /\ UNCHANGED <<screensize, canvas, drawn>>

NextCap ==
    \/ \E text \in LongTexts : CapAppend(text)
    \/ \E input \in LongTexts : CapInput(input)

SpecCap == InitCap /\ [][NextCap]_vars

----------------------------------------------------------------------------
(* Properties *)

LastN(s, n) == IF Len(s) <= n THEN s ELSE SubSeq(s, Len(s) - n + 1, Len(s))

(* The input lines that are "run" resp. "clear" once surrounding white     *)
(* space is removed, listed by hand                                        *)
RunInputs == {IN_RUN, IN_RUN_WS, IN_RUN_NBSP, IN_RUN_EM}
ClearInputs == {IN_CLEAR, IN_CLEAR_WS, IN_CLEAR_VT}

VerdictTexts == {T_BUG_PEER, T_BUG_OUR, T_OK}

(* The verdict lines the last handler added *)
VerdictCalls == {i \in 1..Len(trace) : trace[i].k = "add" /\ trace[i].v \in VerdictTexts}

C1_LogIsLastAppended ==
    /\ Len(appended) <= MAX_HISTORY => (Len(history) = Len(appended) /\ history = appended)
    /\ Len(appended) > MAX_HISTORY =>
          /\ Len(history) = MAX_HISTORY
          /\ history[1] = appended[Len(appended) - (MAX_HISTORY - 1)]
          /\ history = LastN(appended, MAX_HISTORY)

C1_AppendEvictsIndex0 ==
    (ev'.op = "add_message" /\ Len(history) = MAX_HISTORY) =>
        history' = Append(Tail(history), ev'.input)

(* C1: FIFO eviction law of add_message.  From an empty log, after n <= 20 *)
(* appends the log is the n appended texts; after n > 20 appends it has 20 *)
(* entries, the oldest being the (n-19)th appended, and is the last 20     *)
(* appended texts in order; an append at capacity removes exactly the      *)
(* entry at index 0.                                                       *)
C1_FifoEviction == [](C1_LogIsLastAppended) /\ [][C1_AppendEvictsIndex0]_vars

(* msg0 .. msg20 appended: msg1 .. msg20 are left, msg0 is gone *)
C1_Witness ==
    /\ ev.op = "add_message"
    /\ appended = [i \in 1..21 |-> MsgText(i - 1)]
    /\ history = [i \in 1..20 |-> MsgText(i)]

(* C2: in every reachable state of the event loop the message log holds at *)
(* most 20 entries.                                                        *)
C2_AtMostMaxHistory == Len(history) <= MAX_HISTORY

(* The loop waits for an event with a full log after more than 20 appends *)
C2_Witness ==
    /\ pc = "recv"
    /\ ev.op = "Line"
    /\ Len(history) = MAX_HISTORY
    /\ Len(appended) > MAX_HISTORY

(* C3: handle_input of a line whose trimmed text is "clear" leaves the log *)
(* equal to ["Screen cleared"] whatever it held before: the echo is added, *)
(* the log is emptied, the confirmation is added.                          *)
C3_ClearLeavesConfirmation ==
    (ev.op = "handle_input" /\ ev.input \in ClearInputs) =>
        /\ pc = "returned"
        /\ history = <<T_SCREEN_CLEARED>>
        /\ trace = <<Call("add", <<">">> \o ev.input),
                     Call("clear", <<>>),
                     Call("add", T_SCREEN_CLEARED)>>

(* "clear" with surrounding white space dispatched on a full log *)
C3_Witness ==
    /\ ev.op = "handle_input"
    /\ ev.input = IN_CLEAR_WS
    /\ Len(prior) = MAX_HISTORY
    /\ history = <<T_SCREEN_CLEARED>>

(* C4: handle_input first adds the echo ">" followed by the raw input, for *)
(* every input; for an unrecognized input on a log of at most 18 entries   *)
(* the log becomes the prior log, the echo, the help entry.                *)
C4_EchoFirst ==
    ev.op = "handle_input" =>
        /\ Len(trace) >= 1
        /\ trace[1] = Call("add", <<">">> \o ev.input)
        /\ (ev.input \notin (RunInputs \cup ClearInputs) /\ Len(prior) <= MAX_HISTORY - 2) =>
              history = prior \o <<(<<">">> \o ev.input), T_HELP>>

(* Two blanks dispatched on a log of 18 entries: the echo keeps them *)
C4_Witness ==
    /\ ev.op = "handle_input"
    /\ ev.input = IN_BLANK
    /\ Len(prior) = MAX_HISTORY - 2
    /\ history[MAX_HISTORY - 1] = <<">", " ", " ">>
    /\ history[MAX_HISTORY] = T_HELP

(* C5: matching is exact and case-sensitive on the trimmed input.  A line  *)
(* that is neither "run" nor "clear" after trimming adds the echo and the  *)
(* help entry and nothing else (no TRNG draw, no run lines, no clear); a   *)
(* line that is "run" or "clear" only after trimming starts that command.  *)
C5_ExactTrimmedMatch ==
    ev.op = "handle_input" =>
        /\ ev.input \notin (RunInputs \cup ClearInputs) =>
              /\ pc = "returned"
              /\ trace = <<Call("add", <<">">> \o ev.input), Call("add", T_HELP)>>
              /\ history = LastN(prior \o <<(<<">">> \o ev.input), T_HELP>>, MAX_HISTORY)
        /\ ev.input \in RunInputs =>
              /\ Len(trace) >= 2
              /\ trace[2] = Call("add", T_TEST_HEADER)
              /\ pc = "returned" =>
                    /\ Cardinality({i \in 1..Len(trace) : trace[i].k = "trng"}) = 2
                    /\ trace[Len(trace)] = Call("add", T_TEST_COMPLETE)
        /\ ev.input \in ClearInputs =>
              /\ Len(trace) >= 2
              /\ trace[2] = Call("clear", <<>>)

(* "RUN" dispatched on a log of 5 entries takes the default branch *)
C5_Witness ==
    /\ ev.op = "handle_input"
    /\ ev.input = IN_RUN_UPPER
    /\ Len(prior) = 5
    /\ trace = <<Call("add", <<">", "R", "U", "N">>), Call("add", T_HELP)>>
    /\ Len(history) = 7

(* C6: redraw posts no text view whose top coordinate y - line_height is   *)
(* negative, for every viewport height and every log of 0..20 entries.     *)
C6_NoNegativeTop ==
    ev.op = "redraw" => \A i \in 1..Len(drawn) : drawn[i].tl.y >= 0

(* C7: on a viewport of height 100 a redraw posts at most 6 text views,    *)
(* whatever the size of the log.                                           *)
C7_AtMostSixLines ==
    (ev.op = "redraw" /\ screensize.y = 100) => Len(drawn) <= 6

(* C8: a diagnostic run that has its keys adds exactly one of the three    *)
(* verdict lines, for every combination of shared secret, our public key   *)
(* and the peer's public key.                                              *)
C8_ExactlyOneVerdict ==
    (ev.op = "handle_input" /\ ev.input \in RunInputs /\ ev.keys.trng_ok) =>
        /\ pc = "returned"
        /\ Cardinality(VerdictCalls) = 1
        /\ Cardinality({i \in 1..Len(history) : history[i] \in VerdictTexts}) = 1

(* A run in which all three compared values are equal *)
C8_Witness ==
    /\ ev.op = "handle_input"
    /\ ev.input = IN_RUN
    /\ ev.keys.trng_ok
    /\ ev.keys.shared = ev.keys.peer_public
    /\ ev.keys.shared = ev.keys.our_public
    /\ Cardinality(VerdictCalls) = 1

(* C9: the verdict is "BUG: shared == peer_pub!" iff the shared secret     *)
(* equals the peer's public key (also when it equals ours too), "BUG:      *)
(* shared == our_pub!" iff it differs from the peer's and equals ours,     *)
(* "OK: shared != any pubkey" iff it equals neither.                       *)
C9_VerdictClassification ==
    (ev.op = "handle_input" /\ ev.input \in RunInputs /\ ev.keys.trng_ok) =>
        LET added == {trace[i].v : i \in VerdictCalls}
            k == ev.keys
        IN  /\ T_BUG_PEER \in added <=> k.shared = k.peer_public
            /\ T_BUG_OUR \in added <=>
                  (k.shared # k.peer_public /\ k.shared = k.our_public)
            /\ T_OK \in added <=>
                  (k.shared # k.peer_public /\ k.shared # k.our_public)

(* The shared secret equals both public keys and the peer verdict is given *)
C9_Witness ==
    /\ ev.op = "handle_input"
    /\ ev.input \in RunInputs
    /\ ev.keys.trng_ok
    /\ ev.keys.shared = ev.keys.peer_public
    /\ ev.keys.shared = ev.keys.our_public
    /\ {trace[i].v : i \in VerdictCalls} = {T_BUG_PEER}

(* C10: a failing draw call of a redraw in the event loop (the rectangle,  *)
(* a text post, the final redraw request) is never fatal: the process does *)
(* not abort, the redraw leaves the log as it was, and the loop receives   *)
(* the next event.                                                         *)
C10_DrawErrorsNotFatal ==
    (ev.op \in {"Redraw", "Line"} /\ ev.fault # "none") =>
        /\ pc = "recv"
        /\ ev.op = "Redraw" => history = prior

(* What a completed run has done, in order: the calls of handle_input for  *)
(* a "run" line with the keys k, the verdict line being any of the three   *)
RunLines(input, k, verdict) ==
    <<(<<">">> \o input),
      T_TEST_HEADER,
      T_STEP_1,
      T_OUR_PRIV \o format_hex(k.our_secret),
      T_OUR_PUB \o format_hex(k.our_public),
      T_STEP_2,
      T_PEER_PUB \o format_hex(k.peer_public),
      T_STEP_3,
      T_SHARED \o format_hex(k.shared),
      T_STEP_4,
      verdict,
      T_TEST_COMPLETE>>

(* C11: the loop handles one event at a time.  Whenever it waits for the   *)
(* next event after a "run" line, the run has added all its lines through  *)
(* "=== TEST COMPLETE ===" and the redraw that follows has shown the log   *)
(* the run left; a run that did not get to its end has ended the process,  *)
(* so that no event is handled while a run is under way.                   *)
C11_RunAndRedrawFinishFirst ==
    (ev.op = "Line" /\ ev.input \in RunInputs) =>
        /\ pc \in {"recv", "panicked"}
        /\ pc = "recv" =>
              /\ trace # <<>>
              /\ trace[Len(trace)] = Call("add", T_TEST_COMPLETE)
              /\ history[Len(history)] = T_TEST_COMPLETE
              /\ drawn # <<>>
              /\ drawn[1].text = T_TEST_COMPLETE
        /\ (trace = <<>> \/ trace[Len(trace)] # Call("add", T_TEST_COMPLETE)) =>
              pc = "panicked"

(* The loop waits for the next event after a complete run and its redraw *)
C11_Witness ==
    /\ pc = "recv"
    /\ ev.op = "Line"
    /\ ev.input = IN_RUN
    /\ ev.keys.trng_ok
    /\ trace[Len(trace)] = Call("add", T_TEST_COMPLETE)
    /\ drawn[1].text = T_TEST_COMPLETE

(* C12: a redraw of an empty log posts no text view, on every viewport. *)
C12_EmptyLogNoBoxes ==
    (ev.op = "redraw" /\ history = <<>>) => drawn = <<>>

(* The empty log redrawn on a 100 x 100 viewport *)
C12_Witness ==
    /\ ev.op = "redraw"
    /\ pc = "returned"
    /\ history = <<>>
    /\ screensize = Point(100, 100)
    /\ drawn = <<>>

(* The value of a lower-case hex digit; no other character has one *)
HexNibble(c) ==
    CASE c = "0" -> 0 [] c = "1" -> 1 [] c = "2" -> 2 [] c = "3" -> 3
      [] c = "4" -> 4 [] c = "5" -> 5 [] c = "6" -> 6 [] c = "7" -> 7
      [] c = "8" -> 8 [] c = "9" -> 9 [] c = "a" -> 10 [] c = "b" -> 11
      [] c = "c" -> 12 [] c = "d" -> 13 [] c = "e" -> 14 [] c = "f" -> 15
      [] OTHER -> -1000

(* t is bytes as two lower-case hex digits and a space per byte *)
IsHexText(bytes, t) ==
    /\ Len(t) = 3 * Len(bytes)
    /\ \A k \in 1..Len(bytes) :
          /\ 16 * HexNibble(t[3 * k - 2]) + HexNibble(t[3 * k - 1]) = bytes[k]
          /\ t[3 * k] = " "

NotNewline(c) == c # "\n"

(* w is t with a line break before the bytes at index 16, 32, ... *)
IsWrappedText(bytes, t, w) ==
    /\ SelectSeq(w, NotNewline) = t
    /\ {i \in 1..Len(w) : w[i] = "\n"} = {49 * j : j \in 1..((Len(bytes) - 1) \div 16)}

(* C13 as stated: for every byte sequence, format_hex gives two lower-case *)
(* hex digits and a space per byte, 3n characters for n bytes, and         *)
(* bytes_to_log_string the same text with a line break before the bytes at *)
(* index 16, 32, ...                                                       *)
C13_HexEveryLength ==
    ev.op = "hex" =>
        /\ IsHexText(ev.input, trace[1].v)
        /\ IsWrappedText(ev.input, trace[1].v, trace[2].v)

(* C13, amended: the same for byte sequences whose text fits the 256 bytes *)
(* of the XousString<256> returned, up to 85 bytes for format_hex and up   *)
(* to 83 bytes for bytes_to_log_string (cmd_run passes 32); a longer text  *)
(* is cut at 256 bytes.                                                    *)
C13_HexUpToCapacity ==
    ev.op = "hex" =>
        /\ Len(ev.input) <= 85 => IsHexText(ev.input, trace[1].v)
        /\ Len(ev.input) <= 83 =>
              IsWrappedText(ev.input, format_hex(ev.input), trace[2].v)
        /\ Len(ev.input) > 85 => Len(trace[1].v) = 256
        /\ Len(ev.input) > 83 => Len(trace[2].v) = 256
        /\ ev.input = <<222, 173, 190, 239>> =>
              trace[1].v = <<"d", "e", " ", "a", "d", " ", "b", "e", " ", "e", "f", " ">>

(* 32 bytes, as cmd_run passes: 96 characters, one line break at 49 *)
C13_Witness ==
    /\ ev.op = "hex"
    /\ Len(ev.input) = KEY_LEN
    /\ Len(trace[1].v) = 96
    /\ Len(trace[2].v) = 97
    /\ trace[2].v[49] = "\n"

(* C14: the text views of a redraw are stacked from the bottom, newest     *)
(* first: the k-th one (k = 0, 1, ...) carries the k-th newest entry and   *)
(* has corners (4, H - 4 - 16(k+1)) and (W - 4, H - 4 - 16k); each box     *)
(* sits directly on top of the one before, and no entry is shown twice or  *)
(* out of order.                                                           *)
C14_BottomAnchoredNewestFirst ==
    (ev.op = "redraw" /\ pc = "returned") =>
        /\ Len(drawn) <= Len(history)
        /\ history # <<>> => drawn # <<>>
        /\ \A k \in 0..(Len(drawn) - 1) :
              /\ drawn[k + 1].text = history[Len(history) - k]
              /\ drawn[k + 1].tl = Point(4, screensize.y - 4 - 16 * (k + 1))
              /\ drawn[k + 1].br = Point(screensize.x - 4, screensize.y - 4 - 16 * k)
        /\ \A k \in 1..(Len(drawn) - 1) :
              /\ drawn[k + 1].br.y = drawn[k].tl.y
              /\ drawn[k + 1].br.y < drawn[k].br.y

(* A full log on a 336 x 100 viewport: the newest entry in the bottom box *)
C14_Witness ==
    /\ ev.op = "redraw"
    /\ pc = "returned"
    /\ screensize = Point(336, 100)
    /\ Len(history) = MAX_HISTORY
    /\ Len(drawn) > 2
    /\ drawn[1] = [text |-> MsgText(19), tl |-> Point(4, 80), br |-> Point(332, 96)]
    /\ drawn[2] = [text |-> MsgText(18), tl |-> Point(4, 64), br |-> Point(332, 80)]

(* C15: a redraw leaves the log as it is, entry for entry, and a redraw    *)
(* that follows another redraw of the same log on the same viewport posts  *)
(* the same text views again, same texts and same boxes: in the loop every *)
(* change of the log is followed by a redraw, so a Redraw event that runs  *)
(* to its end posts what the redraw before it posted.                      *)
C15_RedrawPureIdempotent ==
    [][(steps' = steps + 1 /\ ev'.op = "Redraw") =>
          /\ history' = history
          /\ appended' = appended
          /\ pc' = "recv" => drawn' = drawn]_vars

(* A Redraw event on the log of the two banner lines, which the initial    *)
(* redraw has shown before: the same two views                             *)
C15_Witness ==
    /\ pc = "recv"
    /\ ev.op = "Redraw"
    /\ history = <<T_BANNER_1, T_BANNER_2>>
    /\ prior = history
    /\ drawn = <<[text |-> T_BANNER_2, tl |-> Point(4, 80), br |-> Point(332, 96)],
                 [text |-> T_BANNER_1, tl |-> Point(4, 64), br |-> Point(332, 80)]>>

(* C16: from every prior log, a full one included, the last 12 entries     *)
(* after a "run" line has been dispatched are, in order, the echo, the     *)
(* header, step 1, "Our priv", "Our pub", step 2, "Peer pub", step 3,      *)
(* "Shared", step 4, the verdict and "=== TEST COMPLETE ===": the run      *)
(* evicts none of its own lines, only the oldest of the earlier ones.      *)
C16_RunTraceInOrder ==
    (ev.op = "handle_input" /\ ev.input \in RunInputs /\ ev.keys.trng_ok) =>
        /\ pc = "returned"
        /\ \E verdict \in VerdictTexts :
              /\ LastN(history, 12) = RunLines(ev.input, ev.keys, verdict)
              /\ history = LastN(prior \o RunLines(ev.input, ev.keys, verdict), 20)
        /\ Len(history) >= 12
        /\ history[Len(history) - 3] = T_SHARED \o format_hex(ev.keys.shared)
        /\ history[Len(history) - 1] \in VerdictTexts
        /\ history[Len(history)] = T_TEST_COMPLETE

(* A run dispatched on a full log: the 8 newest earlier entries, then the  *)
(* 12 lines of the run                                                     *)
C16_Witness ==
    /\ ev.op = "handle_input"
    /\ ev.input = IN_RUN
    /\ pc = "returned"
    /\ Len(prior) = MAX_HISTORY
    /\ Len(history) = MAX_HISTORY
    /\ history[8] = MsgText(19)
    /\ history[9] = <<">", "r", "u", "n">>
    /\ history[10] = T_TEST_HEADER
    /\ history[20] = T_TEST_COMPLETE

(* C17: every redraw lays the log out on the bounds the canvas has at that *)
(* redraw: after a redraw in the event loop the first text view ends at    *)
(* the canvas's bottom margin and every view is as wide as the canvas      *)
(* less its margins, also when the canvas has changed since the UI was     *)
(* constructed.                                                            *)
C17_RedrawUsesCurrentViewport ==
    [][(steps' = steps + 1 /\ ev'.op \in {"Redraw", "Line"} /\ pc' = "recv") =>
          \A i \in 1..Len(drawn') :
              /\ drawn'[i].br.x = canvas.x - MARGIN
              /\ drawn'[i].br.y = canvas.y - MARGIN - (i - 1) * LINE_HEIGHT]_vars

(* a is the first Len(a) bytes of b *)
IsPrefix(a, b) == Len(a) <= Len(b) /\ a = SubSeq(b, 1, Len(a))

(* C18: a text longer than the 512 bytes of an entry, given to add_message *)
(* or arriving as the echo ">" + input, is stored as an entry of at most   *)
(* 512 bytes taken from its start (the echo possibly as an empty entry);   *)
(* every other entry keeps its text, and the log grows and evicts as for   *)
(* any other append.                                                       *)
C18_LongTextCapped ==
    /\ ev.op = "add_message" =>
          /\ Len(history) = IF Len(prior) < 20 THEN Len(prior) + 1 ELSE 20
          /\ Len(history[Len(history)]) <= 512
          /\ Len(ev.input) > 512 => Len(history[Len(history)]) = 512
          /\ IsPrefix(history[Len(history)], ev.input)
          /\ SubSeq(history, 1, Len(history) - 1) = LastN(prior, Len(history) - 1)
    /\ (ev.op = "handle_input" /\ pc = "returned" /\ Len(ev.input) >= 511) =>
          /\ Len(history) = IF Len(prior) < 18 THEN Len(prior) + 2 ELSE 20
          /\ Len(history[Len(history) - 1]) <= 512
          /\ \/ IsPrefix(history[Len(history) - 1], <<">">> \o ev.input)
             \/ history[Len(history) - 1] = <<>>
          /\ history[Len(history)] = T_HELP
          /\ SubSeq(history, 1, Len(history) - 2) = LastN(prior, Len(history) - 2)

(* 513 bytes appended to a full log: the entry holds the first 512, the    *)
(* oldest entry is gone and the others are as they were                    *)
C18_Witness ==
    /\ ev.op = "add_message"
    /\ Len(ev.input) = 513
    /\ Len(prior) = MAX_HISTORY
    /\ Len(history) = MAX_HISTORY
    /\ Len(history[20]) = 512
    /\ history[19] = prior[20]
    /\ history[1] = prior[2]

(* C19: the log is never empty when the loop waits for an event or when a  *)
(* redraw lays it out: the first redraw comes after the two banner lines,  *)
(* every Line event ends with an append, and so every redraw of the loop   *)
(* finds between 1 and 20 entries.                                         *)
C19_LogNeverEmptyInLoop ==
    /\ (pc = "recv" \/ ev.op \notin {"new", "Setup"}) =>
          (1 <= Len(history) /\ Len(history) <= 20)
    /\ ev.op = "Startup" => history = <<T_BANNER_1, T_BANNER_2>>
    /\ (ev.op = "Line" /\ ev.err = "none") =>
          /\ trace # <<>>
          /\ trace[Len(trace)].k = "add"
          /\ history[Len(history)] = XousStringWrite(<<>>, trace[Len(trace)].v, 512)
    /\ (ev.op \in {"Startup", "Redraw", "Line"} /\ pc = "recv") => drawn # <<>>

(* The loop waits for an event after a "clear" line: one entry, shown *)
C19_Witness ==
    /\ pc = "recv"
    /\ ev.op = "Line"
    /\ ev.input \in ClearInputs
    /\ Len(prior) > 1
    /\ history = <<T_SCREEN_CLEARED>>
    /\ Len(drawn) = 1
    /\ drawn[1].text = T_SCREEN_CLEARED

(* C20: only Line events change the log.  A Redraw, ChangeFocus or         *)
(* unknown-opcode event leaves every entry as it was; a ChangeFocus or an  *)
(* unknown opcode makes no draw call and the loop goes on to receive the   *)
(* next event; a Line event takes entries away only by eviction from a     *)
(* full log or by the clear command; a Quit event ends the loop, and after *)
(* it no event is handled.                                                 *)
C20_OnlyLineChangesLog ==
    [][/\ (steps' = steps + 1 /\ ev'.op \in {"Redraw", "ChangeFocus", "Unknown", "Quit"}) =>
             (history' = history /\ trace' = <<>>)
       /\ (steps' = steps + 1 /\ ev'.op \in {"ChangeFocus", "Unknown"}) =>
             (drawn' = drawn /\ pc' = "recv")
       /\ (steps' = steps + 1 /\ ev'.op = "Quit") => (pc' = "exited" /\ drawn' = drawn)
       /\ (steps' = steps + 1 /\ ev'.op = "Line" /\ history' # <<>>
              /\ \E i \in 1..Len(history) : \A j \in 1..Len(history') : history'[j] # history[i]) =>
             \/ \E i \in 1..Len(trace') : trace'[i].k = "clear"
             \/ Len(history') = 20
       /\ history' # history => ev'.op \in {"Startup", "Line"}
       /\ pc = "exited" => UNCHANGED vars]_vars

(* An unknown opcode has been received and the loop waits for the next     *)
(* event, the log and the screen as they were                              *)
C20_Witness ==
    /\ ev.op = "Unknown"
    /\ pc = "recv"
    /\ steps > 1
    /\ history = prior
    /\ Len(history) > 2
    /\ drawn # <<>>

====
